---- MODULE Spec2Model ----
(***************************************************************************)
(* Model of the taxonomic name-resolution and virus-classification code of *)
(* hipc-validation: the NCBI loaders (extract_nodes / extract_names), the  *)
(* tiered name matching, the ancestor walk is_virus, the comment mapping   *)
(* of batch_validate.validate and the memoising write_records loop.        *)
(*                                                                         *)
(* Python strings that the code takes apart (names) are sequences of       *)
(* one-character strings; taxids are opaque strings.  Python's None is      *)
(* NoneId among taxids and NoneName among names and comments.              *)
(***************************************************************************)
EXTENDS Naturals, Sequences, FiniteSets, TLC

\* ------------------------------------------------------------------ values

NoneId == "None"
NoneName == <<"<None>">>

\* Source names of the names.dmp lines. The loader's split strips the
\* whitespace around every field, so a loaded name has no flanking blanks;
\* an empty name field is possible.
N_empty == << >>
N_Ab == <<"A", "b">>
N_b == <<"b">>
N_a__b == <<"a", " ", " ", "b">>
SourceNames == {N_empty, N_b, N_Ab, N_a__b}

\* Names handed to the classifiers: the source names, case and blank
\* variants of them, a substring of one of them, and None.
N_ab == <<"a", "b">>
N_sAb == <<" ", "A", "b">>
N_A == <<"A">>
N_a___b == <<"a", " ", " ", " ", "b">>
InputNames == SourceNames \cup {N_ab, N_sAb, N_A, N_a___b, NoneName}

NameTaxIds == {"1", "10239", "5"}
Kinds == {"scientific name", "synonym"}
\* a names.dmp line after the split: (taxid, name, unique, kind)
NameLines == NameTaxIds \X SourceNames \X {""} \X Kinds

\* lines too short for the four fields (a blank line among them)
ShortNameLines == {<<"">>, <<"5", N_b>>, <<"5", N_b, "">>}

\* names.dmp lines and records of the write_records runs
BatchNameLines == {"10239", "5"} \X {N_b, N_Ab} \X {""} \X Kinds
RecordPairs == {<<N_Ab, N_b>>, <<N_b, N_Ab>>}

\* nodes.dmp lines after the split, (taxid, parent, other), of the
\* classification runs and of the ancestor-walk runs.
NodeLines == {"5"} \X {"10239", "1", "7", "5"} \X {"rank"}
WalkLines ==
  ({"5", "7", "8"} \X {"1", "10239", "5", "7", "8", ""} \X {"rank"})
     \cup {<<"1", "1", "rank">>, <<"10239", "1", "rank">>}

\* lines too short for the three fields (a blank line among them)
ShortNodeLines == {<<"">>, <<"5", "1">>}
AllTaxIds == {"1", "10239", "5", "7", "8", ""}

MaxNameLines == 2

\* ------------------------------------------------------------ str methods

Whitespace == {" "}

LowerChar(c) == IF c = "A" THEN "a" ELSE IF c = "B" THEN "b" ELSE c

\* str.lower()
Lower(s) == [i \in 1..Len(s) |-> LowerChar(s[i])]

RECURSIVE LStrip(_)
LStrip(s) == IF s # << >> /\ Head(s) \in Whitespace THEN LStrip(Tail(s)) ELSE s

RECURSIVE RStrip(_)
RStrip(s) ==
  IF s # << >> /\ s[Len(s)] \in Whitespace THEN RStrip(SubSeq(s, 1, Len(s) - 1)) ELSE s

\* str.strip()
Strip(s) == RStrip(LStrip(s))

\* str.replace('  ', ' '): one left-to-right pass over non-overlapping pairs
RECURSIVE ReplaceDouble(_)
ReplaceDouble(s) ==
  IF Len(s) < 2 THEN s
  ELSE IF s[1] = " " /\ s[2] = " " THEN <<" ">> \o ReplaceDouble(SubSeq(s, 3, Len(s)))
  ELSE <<s[1]>> \o ReplaceDouble(Tail(s))

\* `sub in s` for two str
Contains(sub, s) ==
  \E i \in 0..Len(s) : i + Len(sub) <= Len(s) /\ SubSeq(s, i + 1, i + Len(sub)) = sub

\* truthiness of a name (None and '' are falsy) and of a taxid
NameTruthy(name) == name # NoneName /\ name # << >>
IdTruthy(taxid) == taxid # NoneId /\ taxid # ""

\* ------------------------------------------------------------------- dict

EmptyDict == [k \in {} |-> k]
Put(d, k, v) == [x \in (DOMAIN d) \cup {k} |-> IF x = k THEN v ELSE d[x]]

\* key order of a dict after d[k] = v: a new key goes last, an old one stays
PutOrder(order, k) ==
  IF \E i \in 1..Len(order) : order[i] = k THEN order ELSE Append(order, k)

\* ---------------------------------------------------------------- loaders

\* body of the loop of extract_nodes / load_nodes: parents[taxid] = parent
extract_nodes_line(par, line) == Put(par, line[1], line[2])

\* the loop body with taxid_names filled from the lines of every kind
extract_names_line_all_kinds(idx, line) ==
  LET taxid == line[1]
      name == line[2]
      kind == line[4]
      a == IF kind = "scientific name"
           THEN [idx EXCEPT !.taxid_names = Put(@, taxid, name),
                            !.scientific_names = Put(@, name, taxid),
                            !.sci_order = PutOrder(@, name)]
           ELSE [idx EXCEPT !.taxid_names = Put(@, taxid, name),
                            !.synonyms = Put(@, name, taxid)]
  IN [a EXCEPT !.lowercase_names = Put(@, Lower(name), taxid)]

\* body of the loop of extract_names / load_names on the line
\* (taxid, name, kind); idx is the record of the four dictionaries and of
\* the key order of scientific_names
extract_names_line(idx, line) ==
  LET taxid == line[1]
      name == line[2]
      kind == line[4]
      a == IF kind = "scientific name"
           THEN [idx EXCEPT !.taxid_names = Put(@, taxid, name),
                            !.scientific_names = Put(@, name, taxid),
                            !.sci_order = PutOrder(@, name)]
           ELSE [idx EXCEPT !.synonyms = Put(@, name, taxid)]
  IN [a EXCEPT !.lowercase_names = Put(@, Lower(name), taxid)]

EmptyIndex ==
  [taxid_names |-> EmptyDict, scientific_names |-> EmptyDict, sci_order |-> << >>,
   synonyms |-> EmptyDict, lowercase_names |-> EmptyDict]

\* ---------------------------------------------------------------- is_virus

\* A parent chain that has not ended after as many steps as there are
\* taxids runs in a cycle, and the recursion ends at the interpreter's
\* recursion limit.
WalkFuel == Cardinality(AllTaxIds)

\* is_virus without the test taxid != '1'
RECURSIVE is_virus_walk_no_root(_, _, _)
is_virus_walk_no_root(taxid, par, fuel) ==
  IF ~IdTruthy(taxid) THEN "False"
  ELSE IF taxid = "10239" THEN "True"
  ELSE IF taxid \notin DOMAIN par THEN "KeyError"
  ELSE IF fuel = 0 THEN "RecursionError"
  ELSE is_virus_walk_no_root(par[taxid], par, fuel - 1)

\* taxid and taxid != '1' and (taxid == '10239' or is_virus(parents[taxid]))
RECURSIVE is_virus_walk(_, _, _)
is_virus_walk(taxid, par, fuel) ==
  IF ~IdTruthy(taxid) THEN "False"
  ELSE IF taxid = "1" THEN "False"
  ELSE IF taxid = "10239" THEN "True"
  ELSE IF taxid \notin DOMAIN par THEN "KeyError"
  ELSE IF fuel = 0 THEN "RecursionError"
  ELSE is_virus_walk(par[taxid], par, fuel - 1)

is_virus(taxid, par) == is_virus_walk(taxid, par, WalkFuel)

\* ------------------------------------------------------------ name matching

NoMatch ==
  [taxid |-> NoneId, scientific_name |-> NoneName, automatic_replacement |-> FALSE,
   tier |-> "none", scanned |-> FALSE, err |-> ""]

\* name.strip().lower().replace('  ', ' ')
Normalize(name) == ReplaceDouble(Lower(Strip(name)))

\* the scan with its break after the first match
RECURSIVE scan_names_first_match(_, _, _, _)
scan_names_first_match(name, keys, matches, last) ==
  IF keys = << >> THEN [matches |-> matches, scientific_name |-> last]
  ELSE LET k == Head(keys) IN
       IF Contains(name, k)
       THEN [matches |-> Append(matches, k), scientific_name |-> k]
       ELSE scan_names_first_match(name, Tail(keys), matches, k)

\* for scientific_name in scientific_names.keys(): ... with its break after
\* a second match; the loop variable keeps its last value after the loop
RECURSIVE scan_names(_, _, _, _)
scan_names(name, keys, matches, last) ==
  IF keys = << >> THEN [matches |-> matches, scientific_name |-> last]
  ELSE LET k == Head(keys) IN
       IF Contains(name, k)
       THEN IF Len(matches) + 1 > 1
            THEN [matches |-> Append(matches, k), scientific_name |-> k]
            ELSE scan_names(name, Tail(keys), Append(matches, k), k)
       ELSE scan_names(name, Tail(keys), matches, k)

\* tier 4: the scan and the test len(matches) == 1
substring_tier(name, idx) ==
  LET s == scan_names(name, idx.sci_order, << >>, NoneName) IN
  IF Len(s.matches) = 1
  THEN [NoMatch EXCEPT !.taxid = idx.scientific_names[s.matches[1]],
                       !.scientific_name = s.matches[1],
                       !.tier = "substring", !.scanned = TRUE]
  ELSE [NoMatch EXCEPT !.scientific_name = s.scientific_name, !.scanned = TRUE]

\* the tiers with the synonym test moved in front of the scientific-name test
match_tiers_synonym_first(name, iname, idx) ==
  IF name \in DOMAIN idx.synonyms
  THEN LET taxid == idx.synonyms[name] IN
       IF taxid \in DOMAIN idx.taxid_names
       THEN [NoMatch EXCEPT !.taxid = taxid, !.scientific_name = idx.taxid_names[taxid],
                            !.tier = "synonym"]
       ELSE [NoMatch EXCEPT !.taxid = taxid, !.tier = "synonym", !.err = "KeyError"]
  ELSE IF name \in DOMAIN idx.scientific_names
  THEN [NoMatch EXCEPT !.taxid = idx.scientific_names[name],
                       !.scientific_name = name, !.tier = "exact"]
  ELSE IF iname \in DOMAIN idx.lowercase_names
  THEN LET taxid == idx.lowercase_names[iname] IN
       IF taxid \in DOMAIN idx.taxid_names
       THEN [NoMatch EXCEPT !.taxid = taxid, !.scientific_name = idx.taxid_names[taxid],
                            !.automatic_replacement = TRUE, !.tier = "normalized"]
       ELSE [NoMatch EXCEPT !.taxid = taxid, !.tier = "normalized", !.err = "KeyError"]
  ELSE [NoMatch EXCEPT !.scanned = TRUE]

\* the if / elif chain under `if name:`; the field tier records the branch
\* taken and err the exception a dictionary lookup raises
match_tiers(name, iname, idx) ==
  IF name \in DOMAIN idx.scientific_names
  THEN [NoMatch EXCEPT !.taxid = idx.scientific_names[name],
                       !.scientific_name = name, !.tier = "exact"]
  ELSE IF iname \in DOMAIN idx.lowercase_names
  THEN LET taxid == idx.lowercase_names[iname] IN
       IF taxid \in DOMAIN idx.taxid_names
       THEN [NoMatch EXCEPT !.taxid = taxid, !.scientific_name = idx.taxid_names[taxid],
                            !.automatic_replacement = TRUE, !.tier = "normalized"]
       ELSE [NoMatch EXCEPT !.taxid = taxid, !.tier = "normalized", !.err = "KeyError"]
  ELSE IF name \in DOMAIN idx.synonyms
  THEN LET taxid == idx.synonyms[name] IN
       IF taxid \in DOMAIN idx.taxid_names
       THEN [NoMatch EXCEPT !.taxid = taxid, !.scientific_name = idx.taxid_names[taxid],
                            !.tier = "synonym"]
       ELSE [NoMatch EXCEPT !.taxid = taxid, !.tier = "synonym", !.err = "KeyError"]
  ELSE substring_tier(name, idx)

\* ------------------------------------------------- batch_validate.validate

AutoComment(name, scientific_name) ==
  <<"Automatically replaced \"">> \o name \o <<"\" with \"">> \o scientific_name \o <<"\".">>
SuggestionComment(scientific_name) == <<"Suggestion: ">> \o scientific_name
NotVirusComment == <<"Not the name of a virus">>
NotFoundComment == <<"Not found in NCBI Taxonomy">>

\* the matching part of validate: iname and the tiers
validate_match(name, idx) ==
  LET iname == IF NameTruthy(name) THEN Normalize(name) ELSE << >> IN
  IF NameTruthy(name) THEN match_tiers(name, iname, idx) ELSE NoMatch

\* the comment part with the two arguments of the replacement text swapped
validate_comment_swapped(name, m, par) ==
  LET v == is_virus(m.taxid, par) IN
  IF v = "True"
  THEN IF m.automatic_replacement
       THEN AutoComment(m.scientific_name, name)
       ELSE SuggestionComment(m.scientific_name)
  ELSE IF IdTruthy(m.taxid) THEN NotVirusComment
  ELSE NotFoundComment

\* the comment part without the branch `elif taxid:`
validate_comment_no_elif(name, m, par) ==
  LET v == is_virus(m.taxid, par) IN
  IF v = "True"
  THEN IF m.automatic_replacement
       THEN AutoComment(name, m.scientific_name)
       ELSE SuggestionComment(m.scientific_name)
  ELSE NotFoundComment

\* the comment part of validate
validate_comment(name, m, par) ==
  LET v == is_virus(m.taxid, par) IN
  IF v = "True"
  THEN IF m.automatic_replacement
       THEN AutoComment(name, m.scientific_name)
       ELSE SuggestionComment(m.scientific_name)
  ELSE IF IdTruthy(m.taxid) THEN NotVirusComment
  ELSE NotFoundComment

\* validate(name, parents, taxid_names, scientific_names, synonyms,
\* lowercase_names): the comment it returns, or the exception it raises
validate(name, par, idx) ==
  LET m == validate_match(name, idx)
      v == is_virus(m.taxid, par)
  IN IF m.err # "" THEN [comment |-> NoneName, err |-> m.err, m |-> m, virus |-> "None"]
     ELSE IF v \in {"KeyError", "RecursionError"}
     THEN [comment |-> NoneName, err |-> v, m |-> m, virus |-> v]
     ELSE [comment |-> validate_comment(name, m, par), err |-> "", m |-> m, virus |-> v]

\* --------------------------------------------- src/validate.py (workbook)

\* match_taxon returning the normalized name in place of the name
match_taxon_returns_iname(name, idx) ==
  LET iname == Normalize(name) IN
  [name |-> iname] @@ (IF NameTruthy(name) THEN match_tiers(name, iname, idx) ELSE NoMatch)

\* match_taxon(name) for a str name: the tuple (name, taxid,
\* scientific_name, automatic_replacement)
match_taxon(name, idx) ==
  LET iname == Normalize(name) IN
  [name |-> name] @@ (IF NameTruthy(name) THEN match_tiers(name, iname, idx) ELSE NoMatch)

\* cell.value or ''
OrEmpty(value) == IF NameTruthy(value) THEN value ELSE << >>

\* a cell as validate_taxon leaves it, and the value validate_taxon returns
Cell(value) == [value |-> value, comment |-> NoneName, fill |-> "None", ret |-> NoneName]

\* the cell update with the suggestion written into the cell as well
validate_taxon_update_overwrite(cell, m, v) ==
  IF v = "True"
  THEN IF m.name = m.scientific_name
       THEN [cell EXCEPT !.fill = "greenFill", !.ret = m.scientific_name]
       ELSE IF m.automatic_replacement
       THEN [cell EXCEPT !.comment = AutoComment(m.name, m.scientific_name),
                         !.value = m.scientific_name, !.fill = "blueFill",
                         !.ret = m.scientific_name]
       ELSE [cell EXCEPT !.comment = SuggestionComment(m.scientific_name),
                         !.value = m.scientific_name, !.fill = "orangeFill",
                         !.ret = m.scientific_name]
  ELSE IF IdTruthy(m.taxid)
  THEN [cell EXCEPT !.comment = NotVirusComment, !.fill = "redFill"]
  ELSE [cell EXCEPT !.comment = NotFoundComment, !.fill = "darkRedFill"]

\* the if / elif chain of validate_taxon on the cell
validate_taxon_update(cell, m, v) ==
  IF v = "True"
  THEN IF m.name = m.scientific_name
       THEN [cell EXCEPT !.fill = "greenFill", !.ret = m.scientific_name]
       ELSE IF m.automatic_replacement
       THEN [cell EXCEPT !.comment = AutoComment(m.name, m.scientific_name),
                         !.value = m.scientific_name, !.fill = "blueFill",
                         !.ret = m.scientific_name]
       ELSE [cell EXCEPT !.comment = SuggestionComment(m.scientific_name),
                         !.fill = "orangeFill", !.ret = m.scientific_name]
  ELSE IF IdTruthy(m.taxid)
  THEN [cell EXCEPT !.comment = NotVirusComment, !.fill = "redFill"]
  ELSE [cell EXCEPT !.comment = NotFoundComment, !.fill = "darkRedFill"]

\* validate_taxon(cell) on a cell holding value
validate_taxon(value, par, idx) ==
  LET m == match_taxon(OrEmpty(value), idx)
      v == is_virus(m.taxid, par)
  IN IF m.err # "" THEN [cell |-> Cell(value), err |-> m.err, m |-> m, virus |-> "None"]
     ELSE IF v \in {"KeyError", "RecursionError"}
     THEN [cell |-> Cell(value), err |-> v, m |-> m, virus |-> v]
     ELSE [cell |-> validate_taxon_update(Cell(value), m, v), err |-> "", m |-> m, virus |-> v]

\* ------------------------------------ validate_studies.determine_preferred

StudiesNotVirusComment == <<"Not the name of virus">>

\* matches = [scientific_name for scientific_name in scientific_names
\*            if reported in scientific_name]
RECURSIVE all_matches(_, _)
all_matches(name, keys) ==
  IF keys = << >> THEN << >>
  ELSE IF Contains(name, Head(keys)) THEN <<Head(keys)>> \o all_matches(name, Tail(keys))
  ELSE all_matches(name, Tail(keys))

\* the tiers of determine_preferred: tier 3 reads id_to_scientific_name,
\* a name that is defined nowhere
studies_match(reported, idx) ==
  IF reported = NoneName THEN [NoMatch EXCEPT !.err = "AttributeError"]
  ELSE IF ~NameTruthy(reported) THEN NoMatch
  ELSE IF reported \in DOMAIN idx.scientific_names
  THEN [NoMatch EXCEPT !.taxid = idx.scientific_names[reported],
                       !.scientific_name = reported, !.tier = "exact"]
  ELSE IF Normalize(reported) \in DOMAIN idx.lowercase_names
  THEN LET taxid == idx.lowercase_names[Normalize(reported)] IN
       IF taxid \in DOMAIN idx.taxid_names
       THEN [NoMatch EXCEPT !.taxid = taxid, !.scientific_name = idx.taxid_names[taxid],
                            !.automatic_replacement = TRUE, !.tier = "normalized"]
       ELSE [NoMatch EXCEPT !.taxid = taxid, !.tier = "normalized", !.err = "KeyError"]
  ELSE IF reported \in DOMAIN idx.synonyms
  THEN [NoMatch EXCEPT !.taxid = idx.synonyms[reported], !.tier = "synonym",
                       !.err = "NameError"]
  ELSE LET matches == all_matches(reported, idx.sci_order) IN
       IF Len(matches) = 1
       THEN [NoMatch EXCEPT !.taxid = idx.scientific_names[matches[1]],
                            !.scientific_name = matches[1],
                            !.tier = "substring", !.scanned = TRUE]
       ELSE [NoMatch EXCEPT !.scanned = TRUE]

\* is_virus nested in determine_preferred: `parents` is neither a parameter
\* nor a global of validate_studies.py
studies_is_virus(taxid) ==
  IF ~IdTruthy(taxid) THEN "False"
  ELSE IF taxid = "1" THEN "False"
  ELSE IF taxid = "10239" THEN "True"
  ELSE "NameError"

\* determine_preferred(reported, ...): (preferred, comment)
determine_preferred(reported, idx) ==
  LET m == studies_match(reported, idx)
      v == studies_is_virus(m.taxid)
      out(p, c) == [preferred |-> p, comment |-> c, err |-> "", m |-> m, virus |-> v]
  IN IF m.err # ""
     THEN [preferred |-> NoneName, comment |-> NoneName, err |-> m.err, m |-> m, virus |-> "None"]
     ELSE IF v = "NameError"
     THEN [preferred |-> NoneName, comment |-> NoneName, err |-> v, m |-> m, virus |-> v]
     ELSE IF v = "True"
     THEN IF reported = m.scientific_name THEN out(reported, NoneName)
          ELSE IF m.automatic_replacement
          THEN out(m.scientific_name, AutoComment(reported, m.scientific_name))
          ELSE out(reported, SuggestionComment(m.scientific_name))
     ELSE IF IdTruthy(m.taxid) THEN out(reported, StudiesNotVirusComment)
     ELSE out(reported, NotFoundComment)

\* ------------------------------------------------- validate.py, first draft

\* is_virus of the draft: four tests, then the parent
RECURSIVE draft_is_virus_walk(_, _, _)
draft_is_virus_walk(taxid, par, fuel) ==
  IF ~IdTruthy(taxid) THEN "False"
  ELSE IF taxid = "1" THEN "False"
  ELSE IF taxid = "10239" THEN "True"
  ELSE IF taxid \notin DOMAIN par THEN "KeyError"
  ELSE IF fuel = 0 THEN "RecursionError"
  ELSE draft_is_virus_walk(par[taxid], par, fuel - 1)

draft_is_virus(taxid, par) == draft_is_virus_walk(taxid, par, WalkFuel)

\* match_taxon of the draft: no `if name:` around the tiers, and tier 3
\* reads the undefined id_to_scientific_name
draft_match_taxon(name, idx) ==
  [name |-> name] @@
       (IF name \in DOMAIN idx.scientific_names
        THEN [NoMatch EXCEPT !.taxid = idx.scientific_names[name],
                             !.scientific_name = name, !.tier = "exact"]
        ELSE IF Normalize(name) \in DOMAIN idx.lowercase_names
        THEN LET taxid == idx.lowercase_names[Normalize(name)] IN
             IF taxid \in DOMAIN idx.taxid_names
             THEN [NoMatch EXCEPT !.taxid = taxid,
                                  !.scientific_name = idx.taxid_names[taxid],
                                  !.automatic_replacement = TRUE, !.tier = "normalized"]
             ELSE [NoMatch EXCEPT !.taxid = taxid, !.tier = "normalized", !.err = "KeyError"]
        ELSE IF name \in DOMAIN idx.synonyms
        THEN [NoMatch EXCEPT !.taxid = idx.synonyms[name], !.tier = "synonym",
                             !.err = "NameError"]
        ELSE substring_tier(name, idx))

\* ------------------------------------------------------------------- state

VARIABLES
  pc,         \* "nodes", "names": reading the dump files; "ready": indices built;
              \* "returned": a classifier has returned to its caller;
              \* "records": inside write_records; "crashed": uncaught exception
  parents,    \* the parents dictionary
  index,      \* taxid_names, scientific_names (with key order), synonyms, lowercase_names
  nlines,     \* names.dmp lines read by the running extract_names
  res,        \* the last call of a classifier and what it returned
  validated,  \* the dictionary `validated` of the running write_records
  resolved,   \* per (reported, preferred) pair: was it validated "never", "once", "again"
  row         \* the last row written by write_records

vars == <<pc, parents, index, nlines, res, validated, resolved, row>>
batch == <<validated, resolved, row>>

Init ==
  /\ pc = "nodes"
  /\ parents = EmptyDict
  /\ index = EmptyIndex
  /\ nlines = 0
  /\ res = [op |-> "none"]
  /\ validated = EmptyDict
  /\ resolved = EmptyDict
  /\ row = [match |-> "none"]

\* one iteration of the loop of extract_nodes / load_nodes: the split of
\* the line is unpacked into three names, which raises ValueError when it
\* has fewer parts
ExtractNodesLine(line) ==
  /\ pc = "nodes"
  /\ IF Len(line) < 3
     THEN /\ pc' = "crashed"
          /\ res' = [op |-> "extract_nodes", err |-> "ValueError"]
          /\ UNCHANGED parents
     ELSE /\ parents' = extract_nodes_line(parents, line)
          /\ UNCHANGED <<pc, res>>
  /\ UNCHANGED <<index, nlines, batch>>

ExtractNodesReturn ==
  /\ pc = "nodes"
  /\ pc' = "names"
  /\ UNCHANGED <<parents, index, nlines, res, batch>>

\* one iteration of the loop of extract_names / load_names: the split of
\* the line is unpacked into four names, which raises ValueError when it
\* has fewer parts
ExtractNamesLine(line) ==
  /\ pc = "names"
  /\ nlines < MaxNameLines
  /\ IF Len(line) < 4
     THEN /\ pc' = "crashed"
          /\ res' = [op |-> "extract_names", err |-> "ValueError"]
          /\ UNCHANGED <<index, nlines>>
     ELSE /\ index' = extract_names_line(index, line)
          /\ nlines' = nlines + 1
          /\ UNCHANGED <<pc, res>>
  /\ UNCHANGED <<parents, batch>>

ExtractNamesReturn ==
  /\ pc = "names"
  /\ pc' = "ready"
  /\ nlines' = 0
  /\ UNCHANGED <<parents, index, res, batch>>

\* is_virus(taxid) of validate.py and the is_virus nested in validate
IsVirus(taxid) ==
  /\ pc = "ready"
  /\ res' = [op |-> "is_virus", taxid |-> taxid, out |-> is_virus(taxid, parents)]
  /\ pc' = "returned"
  /\ UNCHANGED <<parents, index, nlines, batch>>

\* is_virus(taxid) of the first draft of validate.py
DraftIsVirus(taxid) ==
  /\ pc = "ready"
  /\ res' = [op |-> "draft_is_virus", taxid |-> taxid, out |-> draft_is_virus(taxid, parents)]
  /\ pc' = "returned"
  /\ UNCHANGED <<parents, index, nlines, batch>>

\* validate(name, ...) of batch_validate
Validate(name) ==
  /\ pc = "ready"
  /\ res' = [op |-> "validate", name |-> name] @@ validate(name, parents, index)
  /\ pc' = "returned"
  /\ UNCHANGED <<parents, index, nlines, batch>>

\* match_taxon(cell.value or '') of validate.py
MatchTaxon(value) ==
  /\ pc = "ready"
  /\ res' = [op |-> "match_taxon", name |-> value, m |-> match_taxon(OrEmpty(value), index)]
  /\ pc' = "returned"
  /\ UNCHANGED <<parents, index, nlines, batch>>

\* validate_taxon(cell) of validate.py on a cell holding value
ValidateTaxon(value) ==
  /\ pc = "ready"
  /\ res' = [op |-> "validate_taxon", name |-> value] @@ validate_taxon(value, parents, index)
  /\ pc' = "returned"
  /\ UNCHANGED <<parents, index, nlines, batch>>

\* determine_preferred(record['unitReported'], ...) of validate_studies
DeterminePreferred(reported) ==
  /\ pc = "ready"
  /\ res' = [op |-> "determine_preferred", name |-> reported]
              @@ determine_preferred(reported, index)
  /\ pc' = "returned"
  /\ UNCHANGED <<parents, index, nlines, batch>>

\* match_taxon(cell.value or '') of the first draft of validate.py
DraftMatchTaxon(value) ==
  /\ pc = "ready"
  /\ res' = [op |-> "draft_match_taxon", name |-> value,
             m |-> draft_match_taxon(OrEmpty(value), index)]
  /\ pc' = "returned"
  /\ UNCHANGED <<parents, index, nlines, batch>>

\* the caller takes the returned value and goes on to its next call
NextCall ==
  /\ pc = "returned"
  /\ pc' = "ready"
  /\ res' = [op |-> "none"]
  /\ UNCHANGED <<parents, index, nlines, batch>>

\* main: write_records(records, ...) is called for the next study
WriteRecordsCall ==
  /\ pc = "ready"
  /\ pc' = "records"
  /\ validated' = EmptyDict
  /\ UNCHANGED <<parents, index, nlines, res, resolved, row>>

\* the iteration with the entry stored before the preferred name is
\* validated, and completed after
WriteRecord_two_stores(reported, preferred) ==
  LET validation_key == <<reported, preferred>>
      r == validate(reported, parents, index)
      p == validate(preferred, parents, index)
      entry == IF validation_key \in DOMAIN validated THEN validated[validation_key]
               ELSE [comment_reported |-> r.comment, comment_preferred |-> p.comment]
  IN /\ pc = "records"
     /\ IF validation_key \in DOMAIN validated
        THEN /\ UNCHANGED <<validated, resolved, pc>>
             /\ row' = [reported |-> reported, preferred |-> preferred] @@ entry @@
                        [match |-> IF entry.comment_reported = entry.comment_preferred
                                   THEN "Y" ELSE "N"]
        ELSE /\ resolved' = Put(resolved, validation_key,
                                IF validation_key \in DOMAIN resolved THEN "again" ELSE "once")
             /\ IF r.err # "" \/ p.err # ""
                THEN /\ pc' = "crashed"
                     /\ validated' = IF r.err = ""
                                     THEN Put(validated, validation_key,
                                              [comment_reported |-> r.comment])
                                     ELSE validated
                     /\ UNCHANGED row
                ELSE /\ validated' = Put(validated, validation_key, entry)
                     /\ row' = [reported |-> reported, preferred |-> preferred] @@ entry @@
                                [match |-> IF entry.comment_reported = entry.comment_preferred
                                           THEN "Y" ELSE "N"]
                     /\ UNCHANGED pc
     /\ UNCHANGED <<parents, index, nlines, res>>

\* one iteration of the loop of write_records on a record with the given
\* virusStrainReported and virusStrainPreferred
WriteRecord(reported, preferred) ==
  LET validation_key == <<reported, preferred>>
      r == validate(reported, parents, index)
      p == validate(preferred, parents, index)
      entry == IF validation_key \in DOMAIN validated THEN validated[validation_key]
               ELSE [comment_reported |-> r.comment, comment_preferred |-> p.comment]
  IN /\ pc = "records"
     /\ IF validation_key \in DOMAIN validated
        THEN /\ UNCHANGED <<validated, resolved, pc>>
             /\ row' = [reported |-> reported, preferred |-> preferred] @@ entry @@
                        [match |-> IF entry.comment_reported = entry.comment_preferred
                                   THEN "Y" ELSE "N"]
        ELSE /\ resolved' = Put(resolved, validation_key,
                                IF validation_key \in DOMAIN resolved THEN "again" ELSE "once")
             /\ IF r.err # "" \/ p.err # ""
                THEN pc' = "crashed" /\ UNCHANGED <<validated, row>>
                ELSE /\ validated' = Put(validated, validation_key, entry)
                     /\ row' = [reported |-> reported, preferred |-> preferred] @@ entry @@
                                [match |-> IF entry.comment_reported = entry.comment_preferred
                                           THEN "Y" ELSE "N"]
                     /\ UNCHANGED pc
     /\ UNCHANGED <<parents, index, nlines, res>>

\* write_records returns to the loop over the studies in main
WriteRecordsReturn ==
  /\ pc = "records"
  /\ pc' = "ready"
  /\ validated' = EmptyDict
  /\ UNCHANGED <<parents, index, nlines, res, resolved, row>>

Load ==
  \/ \E line \in NodeLines \cup ShortNodeLines : ExtractNodesLine(line)
  \/ ExtractNodesReturn
  \/ \E line \in NameLines \cup ShortNameLines : ExtractNamesLine(line)
  \/ ExtractNamesReturn

\* the loaders and the classifiers of the four scripts on single names
Next ==
  \/ Load
  \/ \E name \in InputNames : Validate(name)
  \/ \E value \in InputNames : MatchTaxon(value)
  \/ \E value \in InputNames : ValidateTaxon(value)
  \/ \E reported \in InputNames : DeterminePreferred(reported)
  \/ \E value \in InputNames : DraftMatchTaxon(value)
  \/ NextCall

Spec == Init /\ [][Next]_vars

\* extract_nodes on wider nodes.dmp files and the two is_virus
NextVirus ==
  \/ \E line \in WalkLines : ExtractNodesLine(line)
  \/ ExtractNodesReturn
  \/ ExtractNamesReturn
  \/ \E taxid \in AllTaxIds \cup {NoneId} : IsVirus(taxid)
  \/ \E taxid \in AllTaxIds \cup {NoneId} : DraftIsVirus(taxid)
  \/ NextCall

SpecVirus == Init /\ [][NextVirus]_vars

\* batch_validate's main: the loaders, then write_records study by study
NextBatch ==
  \/ \E line \in NodeLines : ExtractNodesLine(line)
  \/ ExtractNodesReturn
  \/ \E line \in BatchNameLines : ExtractNamesLine(line)
  \/ ExtractNamesReturn
  \/ WriteRecordsCall
  \/ \E pair \in RecordPairs : WriteRecord(pair[1], pair[2])
  \/ WriteRecordsReturn

SpecBatch == Init /\ [][NextBatch]_vars

\* ------------------------------------------------------------- properties

\* The parent chain of taxid: the taxid, its parent, the parent's parent,
\* ... as long as the parents dictionary has the entry.
RECURSIVE ParentChain(_, _, _)
ParentChain(taxid, par, n) ==
  IF n = 0 THEN << >>
  ELSE IF taxid \in DOMAIN par THEN <<taxid>> \o ParentChain(par[taxid], par, n - 1)
  ELSE <<taxid>>

Chain(taxid, par) == ParentChain(taxid, par, WalkFuel + 1)

\* '10239' occurs on the chain and neither '1' nor '' occurs before it
ChainIsVirus(taxid, par) ==
  \E i \in 1..Len(Chain(taxid, par)) :
     /\ Chain(taxid, par)[i] = "10239"
     /\ \A j \in 1..i : Chain(taxid, par)[j] \notin {"1", "", NoneId}

\* '1' or an empty taxid occurs on the chain and '10239' does not occur before it
ChainIsNotVirus(taxid, par) ==
  \E i \in 1..Len(Chain(taxid, par)) :
     /\ Chain(taxid, par)[i] \in {"1", "", NoneId}
     /\ \A j \in 1..i : Chain(taxid, par)[j] # "10239"

SciKeys == DOMAIN index.scientific_names
Matching == res.op \in {"validate", "match_taxon"}

\* C1, non-empty names: for every non-empty input name that is a key of the
\* scientific-name index, validate and match_taxon take the exact tier:
\* taxid = scientific_names[name], resolved name = name, no automatic
\* replacement, whatever the synonym and lowercase indices hold.
C1_ExactTierDecides ==
  (Matching /\ NameTruthy(res.name) /\ res.name \in SciKeys) =>
     /\ res.m.err = ""
     /\ res.m.tier = "exact"
     /\ res.m.taxid = index.scientific_names[res.name]
     /\ res.m.scientific_name = res.name
     /\ res.m.automatic_replacement = FALSE

\* C1, all keys: the same for every input name that is a key of the
\* scientific-name index, the empty name included.
C1_AsStated ==
  (Matching /\ res.name \in SciKeys) =>
     /\ res.m.tier = "exact"
     /\ res.m.taxid = index.scientific_names[res.name]
     /\ res.m.scientific_name = res.name
     /\ res.m.automatic_replacement = FALSE

\* an exact hit on a name that is also a synonym of another taxon, to which
\* the lowercase index points too
C1_Witness ==
  /\ res.op = "validate"
  /\ res.name = N_Ab
  /\ N_Ab \in SciKeys
  /\ N_Ab \in DOMAIN index.synonyms
  /\ index.synonyms[N_Ab] # index.scientific_names[N_Ab]
  /\ index.lowercase_names[N_ab] # index.scientific_names[N_Ab]
  /\ res.m.tier = "exact"

\* C2: for every name that is a key of the scientific-name index and whose
\* taxid is a virus, validate returns no comment and validate_taxon leaves
\* the cell without comment and with its value (stated for the non-empty
\* names, which already violate it).
C2_ExactVirusNoComment ==
  /\ (res.op = "validate" /\ NameTruthy(res.name) /\ res.name \in SciKeys
        /\ ChainIsVirus(index.scientific_names[res.name], parents)) =>
       (res.err = "" /\ res.comment = NoneName)
  /\ (res.op = "validate_taxon" /\ NameTruthy(res.name) /\ res.name \in SciKeys
        /\ ChainIsVirus(index.scientific_names[res.name], parents)) =>
       (res.err = "" /\ res.cell.comment = NoneName /\ res.cell.value = res.name
          /\ res.cell.fill = "greenFill")

\* the half of C2 that holds: validate_taxon on such a name
C2_ValidateTaxonHalf ==
  (res.op = "validate_taxon" /\ NameTruthy(res.name) /\ res.name \in SciKeys
     /\ ChainIsVirus(index.scientific_names[res.name], parents)) =>
    (res.err = "" /\ res.cell.comment = NoneName /\ res.cell.value = res.name
       /\ res.cell.fill = "greenFill")

NormalizedKey(name) == Normalize(name) \in DOMAIN index.lowercase_names
NormalizedTaxid(name) == index.lowercase_names[Normalize(name)]

SciContaining(name) == {k \in SciKeys : Contains(name, k)}

\* C4, after tiers 1 to 3: for any name that tiers 1 to 3 do not match (not a key
\* of the scientific-name index, normalized form not a key of the lowercase
\* index, not a synonym key) and that two or more scientific names contain,
\* validate returns 'Not found in NCBI Taxonomy'.
C4_AmbiguousIsNotFound ==
  (/\ res.op = "validate" /\ res.name # NoneName
   /\ res.name \notin SciKeys /\ ~NormalizedKey(res.name)
   /\ res.name \notin DOMAIN index.synonyms
   /\ Cardinality(SciContaining(res.name)) >= 2) =>
     (res.err = "" /\ res.comment = <<"Not found in NCBI Taxonomy">>)

\* C4, all names: the same for any name that two or more scientific names
\* contain.
C4_AsStated ==
  (/\ res.op = "validate" /\ res.name # NoneName
   /\ Cardinality(SciContaining(res.name)) >= 2) =>
     (res.err = "" /\ res.comment = <<"Not found in NCBI Taxonomy">>)

\* the scan ran on a non-empty name and found two scientific names
C4_Witness ==
  /\ res.op = "validate"
  /\ res.name = N_b
  /\ res.m.scanned
  /\ Cardinality(SciContaining(N_b)) >= 2
  /\ res.comment = <<"Not found in NCBI Taxonomy">>

\* C5: whenever validate matches a taxid, by whichever tier, and the taxid
\* is not a virus, the comment is 'Not the name of a virus'; the root '1'
\* gets it with any parents dictionary, the empty one included.
C5_NotAVirus ==
  (/\ res.op = "validate" /\ res.m.err = "" /\ res.m.tier # "none"
   /\ ChainIsNotVirus(res.m.taxid, parents)) =>
     (res.err = "" /\ res.comment = <<"Not the name of a virus">>)

\* test_validate's 'FO': a unique substring of the scientific name of the
\* root, with no parents loaded
C5_Witness ==
  /\ res.op = "validate"
  /\ parents = EmptyDict
  /\ res.m.tier = "substring"
  /\ res.m.taxid = "1"
  /\ res.comment = <<"Not the name of a virus">>

\* each tier reaches the verdict 'Not the name of a virus'
C5_TierReached(tier) ==
  res.op = "validate" /\ res.m.tier = tier /\ res.comment = <<"Not the name of a virus">>

\* C7: when the parent chain of t reaches '1' or '10239', both is_virus
\* return true exactly when '10239' comes first; '10239', '1', '' and None
\* are decided without a parents entry.
C7_IsVirusIsChainTest ==
  (res.op \in {"is_virus", "draft_is_virus"}) =>
     /\ ChainIsVirus(res.taxid, parents) => res.out = "True"
     /\ ChainIsNotVirus(res.taxid, parents) => res.out = "False"
     /\ res.taxid = "10239" => res.out = "True"
     /\ res.taxid \in {"1", "", NoneId} => res.out = "False"

\* a virus two parents below '10239', whose own entry points at the root
C7_Witness ==
  /\ res.op = "is_virus"
  /\ res.taxid \notin {"1", "10239"}
  /\ res.taxid \in DOMAIN parents
  /\ parents[res.taxid] \notin {"1", "10239"}
  /\ "10239" \in DOMAIN parents
  /\ res.out = "True"

\* C8: an empty or null name is matched by no tier, no taxid is matched
\* and the verdict is 'Not found in NCBI Taxonomy', for every content of
\* the indices (that the scan is not even run is part of C8_GuardedVersions).
C8_EmptyNameNoTier ==
  /\ (res.op \in {"validate", "match_taxon", "draft_match_taxon", "validate_taxon"}
        /\ ~NameTruthy(res.name)) =>
       (res.m.err = "" /\ res.m.tier = "none" /\ res.m.taxid = NoneId)
  /\ (res.op = "validate" /\ ~NameTruthy(res.name)) =>
       (res.err = "" /\ res.comment = <<"Not found in NCBI Taxonomy">>)
  /\ (res.op = "validate_taxon" /\ ~NameTruthy(res.name)) =>
       (res.err = "" /\ res.cell.comment = <<"Not found in NCBI Taxonomy">>)

\* the part of C8 that holds: validate, match_taxon and validate_taxon of
\* batch_validate.py and src/src/validate.py
C8_GuardedVersions ==
  /\ (res.op \in {"validate", "match_taxon", "validate_taxon"} /\ ~NameTruthy(res.name)) =>
       (res.m.err = "" /\ res.m.tier = "none" /\ ~res.m.scanned /\ res.m.taxid = NoneId)
  /\ (res.op = "validate" /\ ~NameTruthy(res.name)) =>
       (res.err = "" /\ res.comment = <<"Not found in NCBI Taxonomy">>)
  /\ (res.op = "validate_taxon" /\ ~NameTruthy(res.name)) =>
       (res.err = "" /\ res.cell.comment = <<"Not found in NCBI Taxonomy">>)

\* C10: validate_taxon writes another value into the cell, and
\* determine_preferred reports another name than the input, only in the
\* auto-corrected outcome: a virus matched by the normalized tier, the new
\* name being the resolved scientific name; every other outcome keeps the
\* input.
C10_OnlyAutoCorrectedRenames ==
  /\ (res.op = "validate_taxon" /\ res.err = "") =>
       IF res.m.tier = "normalized" /\ ChainIsVirus(res.m.taxid, parents)
       THEN res.cell.value = index.taxid_names[res.m.taxid] /\ res.cell.fill = "blueFill"
       ELSE res.cell.value = res.name /\ res.cell.fill # "blueFill"
  /\ (res.op = "determine_preferred" /\ res.err = "") =>
       IF res.m.tier = "normalized" /\ ChainIsVirus(res.m.taxid, parents)
       THEN res.preferred = index.taxid_names[res.m.taxid]
       ELSE res.preferred = res.name

\* a suggested outcome (virus matched by the synonym tier) that keeps the cell
C10_Witness ==
  /\ res.op = "validate_taxon"
  /\ res.err = ""
  /\ res.m.tier = "synonym"
  /\ res.cell.fill = "orangeFill"
  /\ res.cell.value = res.name
  /\ res.cell.value # res.m.scientific_name

\* the auto-corrected outcome is reached by both scripts
C10_Renamed(op) ==
  /\ res.op = op /\ res.err = "" /\ res.m.tier = "normalized"
  /\ (IF op = "validate_taxon" THEN res.cell.value ELSE res.preferred) # res.name

\* C6: within one run, over all studies and all calls of write_records,
\* each distinct (reported, preferred) pair is validated at most once.
C6_OncePerRun ==
  \A key \in DOMAIN resolved : resolved[key] = "once"

\* what the code keeps: a pair that is in `validated` is not validated again
\* in the same call of write_records
C6_OncePerCall ==
  [][\A key \in DOMAIN validated : resolved'[key] = resolved[key]]_vars

\* C9: the match flag is "Y" exactly when the two comments are equal, and a
\* record whose reported and preferred names are two different scientific
\* names of viruses gets "Y".
C9_MatchFlag ==
  (row.match # "none") =>
     /\ (row.match = "Y") <=> (row.comment_reported = row.comment_preferred)
     /\ (/\ row.reported # row.preferred
         /\ row.reported \in SciKeys /\ row.preferred \in SciKeys
         /\ ChainIsVirus(index.scientific_names[row.reported], parents)
         /\ ChainIsVirus(index.scientific_names[row.preferred], parents))
        => row.match = "Y"

\* the first half of C9 alone
C9_FlagIsCommentEquality ==
  (row.match # "none") =>
     ((row.match = "Y") <=> (row.comment_reported = row.comment_preferred))

\* the parent chain runs on through parents entries for ever: it never
\* comes to '1', '10239', an empty taxid or a taxid without an entry
ChainCycles(taxid, par) ==
  /\ Len(Chain(taxid, par)) = WalkFuel + 1
  /\ \A i \in 1..Len(Chain(taxid, par)) :
        /\ Chain(taxid, par)[i] \in DOMAIN par
        /\ Chain(taxid, par)[i] \notin {"1", "10239", "", NoneId}

\* C11: when the parent chain of the taxid enters a cycle without '1' and
\* '10239', is_virus stops with a CycleError.
C11_CycleError ==
  (res.op = "is_virus" /\ ChainCycles(res.taxid, parents)) => res.out = "CycleError"

\* what the code does on such a chain: the recursion runs into the
\* interpreter's recursion limit
C11_RecursionError ==
  (res.op \in {"is_virus", "draft_is_virus"} /\ ChainCycles(res.taxid, parents))
     => res.out = "RecursionError"

\* the parent chain comes to a taxid, other than '', '1' and '10239', that
\* has no parents entry
ChainBreaks(taxid, par) ==
  LET last == Chain(taxid, par)[Len(Chain(taxid, par))] IN
  /\ last \notin DOMAIN par
  /\ last \notin {"1", "10239", "", NoneId}
  /\ \A i \in 1..Len(Chain(taxid, par)) : Chain(taxid, par)[i] \notin {"1", "10239", "", NoneId}

\* C12: when the ancestor walk of the matched taxid comes to a taxid that is
\* not a key of parents, validate fails with GraphIntegrityError and returns
\* no comment.
C12_GraphIntegrityError ==
  (res.op = "validate" /\ res.m.err = "" /\ ChainBreaks(res.m.taxid, parents)) =>
     (res.err = "GraphIntegrityError" /\ res.comment = NoneName)

\* what the code does there: the KeyError of parents[taxid], and no comment
C12_KeyError ==
  (res.op = "validate" /\ res.m.err = "" /\ ChainBreaks(res.m.taxid, parents)) =>
     (res.err = "KeyError" /\ res.comment = NoneName)

\* C13: when the normalized input is a key of lowercase_names and its taxid
\* has no entry in taxid_names, validate and match_taxon give no match (no
\* taxid, 'Not found in NCBI Taxonomy') and raise nothing.
C13_MissingNameIsNoMatch ==
  (/\ res.op \in {"validate", "match_taxon"} /\ NameTruthy(res.name)
   /\ res.name \notin SciKeys /\ NormalizedKey(res.name)
   /\ NormalizedTaxid(res.name) \notin DOMAIN index.taxid_names) =>
     /\ res.m.err = "" /\ res.m.tier = "none" /\ res.m.taxid = NoneId
     /\ res.op = "validate" => (res.err = "" /\ res.comment = <<"Not found in NCBI Taxonomy">>)

\* what the code does there: the KeyError of taxid_names[taxid]
C13_KeyError ==
  (/\ res.op \in {"validate", "match_taxon"} /\ NameTruthy(res.name)
   /\ res.name \notin SciKeys /\ NormalizedKey(res.name)
   /\ NormalizedTaxid(res.name) \notin DOMAIN index.taxid_names) =>
     (res.m.err = "KeyError" /\ res.m.tier = "normalized")

Loaders == {"extract_nodes", "extract_names"}

\* C14: when a nodes.dmp line has fewer than 3 fields or a names.dmp line
\* fewer than 4, the loader fails with ParseError.
C14_ParseError ==
  (pc = "crashed" /\ res.op \in Loaders) => res.err = "ParseError"

\* what the code does there: the ValueError of the tuple unpacking
C14_ValueError ==
  (pc = "crashed" /\ res.op \in Loaders) => res.err = "ValueError"

\* the exception is caught nowhere: after it nothing is matched or classified
C14_NothingAfterCrash ==
  [][pc # "crashed"]_vars

\* the tier that decides on a name, read off the dictionaries
TierOf(name) ==
  IF ~NameTruthy(name) THEN "none"
  ELSE IF name \in SciKeys THEN "exact"
  ELSE IF NormalizedKey(name) THEN "normalized"
  ELSE IF name \in DOMAIN index.synonyms THEN "synonym"
  ELSE IF Cardinality(SciContaining(name)) = 1 THEN "substring"
  ELSE "none"

\* C15: the first component of what match_taxon returns is its argument,
\* unchanged, and automatic_replacement is true exactly when the normalized
\* tier decides: false for an exact, a synonym and a unique-substring match
\* and when nothing matches.
C15_NameAndFlag ==
  (res.op = "match_taxon" /\ res.m.err = "") =>
     /\ res.m.name = OrEmpty(res.name)
     /\ res.m.automatic_replacement <=> (TierOf(res.name) = "normalized")
     /\ res.m.tier = TierOf(res.name)

\* test_match_taxon's '  FOO  ': blanks kept in the returned name, flag set
C15_Witness ==
  /\ res.op = "match_taxon"
  /\ res.name = N_sAb
  /\ res.m.err = ""
  /\ res.m.name = N_sAb
  /\ res.m.scientific_name = N_Ab
  /\ res.m.automatic_replacement

\* each tier, and no tier, is reached by match_taxon
C15_TierReached(tier) ==
  res.op = "match_taxon" /\ res.m.err = "" /\ res.m.tier = tier

\* the exhaustive scan of determine_preferred on the name of the last call
Exhaustive == all_matches(OrEmpty(res.name), index.sci_order)

\* the last call came to tier 4 in one of the scans that stop at a second match
ShortScan ==
  res.op \in {"validate", "draft_match_taxon"} /\ res.m.err = "" /\ res.m.scanned

\* C16: when tiers 1 to 3 miss, tier 4 matches exactly when one and only one
\* scientific name contains the input, and the scan that stops at a second
\* match gives the taxid and the resolved name that the exhaustive scan
\* gives (none of either unless exactly one name matches), in every key
\* order of scientific_names; validate returns the taxid in its comment
\* only, match_taxon returns both.
C16_ScanEquivalence ==
  ShortScan =>
     /\ (res.m.tier = "substring") <=> (Cardinality(SciContaining(OrEmpty(res.name))) = 1)
     /\ res.m.taxid = IF Len(Exhaustive) = 1 THEN index.scientific_names[Exhaustive[1]]
                      ELSE NoneId
     /\ res.op = "draft_match_taxon" =>
          res.m.scientific_name = IF Len(Exhaustive) = 1 THEN Exhaustive[1] ELSE NoneName

\* the part of C16 that the code keeps: the same match and the same taxid,
\* and the same resolved name whenever tier 4 matches
C16_SameMatch ==
  ShortScan =>
     /\ (res.m.tier = "substring") <=> (Cardinality(SciContaining(OrEmpty(res.name))) = 1)
     /\ res.m.taxid = IF Len(Exhaustive) = 1 THEN index.scientific_names[Exhaustive[1]]
                      ELSE NoneId
     /\ Len(Exhaustive) = 1 => res.m.scientific_name = Exhaustive[1]

\* two scientific names contain the input and the scan stopped at the second
C16_Ambiguous ==
  /\ ShortScan
  /\ Len(Exhaustive) = 2
  /\ res.m.taxid = NoneId

\* the names of the names.dmp lines read so far: each line puts its name
\* into scientific_names or into synonyms, and no key is ever removed
LoadedNames == SciKeys \cup DOMAIN index.synonyms

\* C17: after the build, for every name of the names source, scientific or
\* synonym, lowercase_names has the key that the normalization of inputs
\* (strip, lower, doubled blanks collapsed) makes of that name.
C17_NormalizedKeys ==
  (pc \in {"ready", "returned"}) =>
     \A name \in LoadedNames : Normalize(name) \in DOMAIN index.lowercase_names

\* what extract_names keeps: the key name.lower(), at every line read
C17_LowerKeys ==
  \A name \in LoadedNames : Lower(name) \in DOMAIN index.lowercase_names

\* the last line read decides the taxid of its lower-case key
C17_LastWriteWins ==
  [][\A line \in NameLines :
       (pc = "names" /\ index' = extract_names_line(index, line))
          => index'.lowercase_names[Lower(line[2])] = line[1]]_vars

\* C18: every entry of `validated` holds the two comments, and they are the
\* comments that validate returns for the reported and for the preferred
\* name on the same dictionaries; no entry exists for a pair of which one
\* validation failed; a row served from the cache carries these comments.
C18_EntriesComplete ==
  /\ \A key \in DOMAIN validated :
        /\ DOMAIN validated[key] = {"comment_reported", "comment_preferred"}
        /\ validate(key[1], parents, index).err = ""
        /\ validate(key[2], parents, index).err = ""
        /\ validated[key].comment_reported = validate(key[1], parents, index).comment
        /\ validated[key].comment_preferred = validate(key[2], parents, index).comment
  /\ (row.match # "none") =>
        /\ row.comment_reported = validate(row.reported, parents, index).comment
        /\ row.comment_preferred = validate(row.preferred, parents, index).comment

\* the validation of the preferred name failed after the one of the
\* reported name had returned its comment, and nothing was stored
C18_Witness ==
  /\ pc = "crashed"
  /\ \E pair \in RecordPairs :
        /\ DOMAIN resolved = {pair}
        /\ validate(pair[1], parents, index).err = ""
        /\ validate(pair[2], parents, index).err # ""
        /\ pair \notin DOMAIN validated

\* a row is served from the cache
C18_CacheHit ==
  /\ pc = "records"
  /\ row.match # "none"
  /\ <<row.reported, row.preferred>> \in DOMAIN validated

\* the name has two adjacent blanks
HasDoubleBlank(name) ==
  \E i \in 1..Len(name) : i < Len(name) /\ name[i] = " " /\ name[i + 1] = " "

\* the last call matched a synonym key that is no scientific name
SynonymKeyInput ==
  /\ res.op \in {"validate", "match_taxon"}
  /\ NameTruthy(res.name)
  /\ res.name \in DOMAIN index.synonyms
  /\ res.name \notin SciKeys

\* C19: on the dictionaries that extract_names / load_names build, an input
\* that is a synonym key, is no scientific name and has no two adjacent
\* blanks is resolved by the normalized tier (automatic_replacement true,
\* taxid from lowercase_names), never by the synonym tier; the synonym tier
\* decides only on synonym keys with two adjacent blanks. (Stated for the
\* non-empty keys: the empty name is matched by no tier.)
C19_SynonymKeysNormalized ==
  /\ (SynonymKeyInput /\ ~HasDoubleBlank(res.name)) =>
       /\ res.m.err = ""
       /\ res.m.automatic_replacement
       /\ res.m.taxid = index.lowercase_names[Normalize(res.name)]
       /\ res.m.scientific_name = index.taxid_names[res.m.taxid]
  /\ (res.op \in {"validate", "match_taxon"} /\ res.m.tier = "synonym") =>
       (res.name \in DOMAIN index.synonyms /\ HasDoubleBlank(res.name))

\* what the code keeps: such an input takes the branch of the normalized
\* tier, which returns the taxid of lowercase_names or raises the KeyError
\* of taxid_names[taxid]; the synonym branch is taken only with two blanks
C19_NormalizedBranch ==
  /\ (SynonymKeyInput /\ ~HasDoubleBlank(res.name)) =>
       /\ res.m.tier = "normalized"
       /\ res.m.taxid = index.lowercase_names[Normalize(res.name)]
       /\ res.m.err = "" => (res.m.automatic_replacement
                              /\ res.m.scientific_name = index.taxid_names[res.m.taxid])
       /\ res.m.err # "" => (res.m.err = "KeyError"
                              /\ res.m.taxid \notin DOMAIN index.taxid_names)
  /\ (res.op \in {"validate", "match_taxon"} /\ res.m.tier = "synonym") =>
       (res.name \in DOMAIN index.synonyms /\ HasDoubleBlank(res.name))

\* a synonym key without doubled blanks resolved by the normalized tier
C19_Reached ==
  /\ SynonymKeyInput /\ ~HasDoubleBlank(res.name)
  /\ res.m.err = ""
  /\ res.m.tier = "normalized"
  /\ res.m.automatic_replacement

\* C20: on the dictionaries that load_names builds, whenever match_taxon
\* matches a taxid, the scientific name it returns equals the input exactly
\* when the exact tier decided; so validate_taxon fills a cell green (no
\* comment, value kept) exactly for the exact-tier matches of viruses.
C20_SameNameIffExact ==
  /\ (res.op \in {"match_taxon", "validate_taxon"} /\ res.m.err = ""
        /\ res.m.taxid # NoneId) =>
       ((res.m.scientific_name = res.m.name) <=> (TierOf(res.name) = "exact"))
  /\ (res.op = "validate_taxon" /\ res.err = "") =>
       ((res.cell.fill = "greenFill")
          <=> (TierOf(res.name) = "exact" /\ ChainIsVirus(res.m.taxid, parents)))

\* a synonym of a virus given as input: matched by the normalized tier to
\* the scientific name of its taxid, which is another name, and not green
C20_Witness ==
  /\ res.op = "validate_taxon"
  /\ res.err = ""
  /\ res.name = N_b
  /\ N_b \in DOMAIN index.synonyms
  /\ res.m.tier = "normalized"
  /\ res.m.scientific_name = N_Ab
  /\ res.virus = "True"
  /\ res.cell.fill = "blueFill"

\* the last call of one of the two match_taxon returned without a taxid
NoTaxonMatched ==
  /\ res.op \in {"match_taxon", "draft_match_taxon"}
  /\ res.m.err = ""
  /\ res.m.taxid = NoneId

\* C21: whenever match_taxon returns the taxid None, also when the scan
\* found no or several scientific names, it returns the scientific_name
\* None and automatic_replacement False; a scientific_name other than None
\* comes only with a taxid.
C21_NoTaxonNoName ==
  NoTaxonMatched =>
     (res.m.scientific_name = NoneName /\ res.m.automatic_replacement = FALSE)

\* what the code keeps: automatic_replacement is False without a taxid, and
\* the scientific_name is None unless the scan ran over a non-empty
\* scientific_names, when it is the key the loop stopped on
C21_FlagAndLeak ==
  NoTaxonMatched =>
     /\ res.m.automatic_replacement = FALSE
     /\ (~res.m.scanned \/ index.sci_order = << >>) => res.m.scientific_name = NoneName
     /\ (res.m.scanned /\ index.sci_order # << >>) =>
          \E i \in 1..Len(index.sci_order) : res.m.scientific_name = index.sci_order[i]

\* the scan stopped at the second of two names that contain the input
C21_LeakReached ==
  /\ NoTaxonMatched
  /\ res.op = "match_taxon"
  /\ Len(Exhaustive) = 2
  /\ res.m.scientific_name = index.sci_order[2]


====
